---- MODULE Spec2Model ----
(***************************************************************************)
(* The streaming bridge of airspyhf_source_c: the consumer thread runs     *)
(* work(), the driver's consumer thread runs airspyhf_rx_callback(), and a *)
(* control thread runs start() and stop().  The three share _stream_mutex, *)
(* the slot _stream_buff and the two condition variables _stream_cond and  *)
(* _callback_done_cond.                                                    *)
(***************************************************************************)
EXTENDS Integers, Sequences, FiniteSets, TLC

\* ---- bounds of the exploration ----
MaxCalls == 2        \* work() calls made by the scheduler
MaxBlocks == 2       \* blocks the hardware hands to the callback
MaxStarts == 2       \* start() calls
MaxItems == 3        \* largest noutput_items of a work() call
MaxDropped == 1      \* largest t->dropped_samples of a transfer

\* ---- program constants ----
_airspyhf_output_size == 2  \* airspyhf_get_output_size(_dev), the native block size
WORK_DONE == -1             \* gr::block::WORK_DONE, the end-of-stream result of work()
nullptr == 0
\* the constructor does not initialize _dropped_samples: what a first read may yield
Uninitialized == {0, 1}
PENDING == WORK_DONE - 1    \* marks a work() call that has not returned (no return value)

VARIABLES
    streaming,         \* airspyhf_is_streaming(_dev)
    faulted,           \* the hardware left the streaming state for good
    _stream_mutex,     \* holder of _stream_mutex: "free", "work", "ctl"
    _stream_buff,      \* _stream_buff: nullptr or the buffer of the k-th work() call
    _dropped_samples,  \* _dropped_samples
    wpc,               \* position of the consumer thread inside work()
    cpc,               \* position of the driver thread inside airspyhf_rx_callback()
    spc,               \* position of the control thread inside stop()
    req,               \* noutput_items of each work() call
    ret,               \* return value of each work() call
    bufs,              \* output_items[0] of each work() call, sample by sample
    copies,            \* memcpy calls that wrote each buffer
    bufEpoch,          \* start() count when the buffer was stored in the slot
    blockEpoch,        \* start() count when each block was handed to the callback
    t_dropped,         \* t->dropped_samples of the transfer being delivered
    epoch,             \* number of start() calls so far
    ctl,               \* the control call that returned last, and how
    \* airspyhf_source_c, the parameters
    hf,                \* cached members and the hardware's registers
    hfcall,            \* the setter or getter call made last, and its outcome
    \* bladerf_common, the parameters of one channel
    brf,               \* the hardware's registers and the attached range
    brfcall,           \* the setter or getter call made last, and its outcome
    \* bladerf_common, the device registry
    _devs,             \* the list of weak handles
    _devs_mutex,       \* holder of _devs_mutex: 0 (free) or a thread
    handles,           \* control block and physical connection of every handle made
    tpc,               \* position of each thread inside open() or close()
    tvar,              \* locals of each thread
    \* bladerf_common, init()
    dict,              \* the "buffers", "buflen" and "transfers" arguments: <<>> or <<n>>
    _num_buffers,      \* _num_buffers
    _samples_per_buffer, \* _samples_per_buffer
    _num_transfers,    \* _num_transfers
    ipc,               \* "constructed" or "initialized"
    \* bladerf_common, the antennas
    direction,         \* the direction of the object: "RX" of a source, "TX" of a sink
    _chanmap,          \* _chanmap: channel -> port, -1 for no port
    _enables,          \* _enables: channel -> enabled
    antcall            \* the last call of set_antenna and its outcome

\* the streaming bridge
vars == <<streaming, faulted, _stream_mutex, _stream_buff, _dropped_samples,
          wpc, cpc, spc, req, ret, bufs, copies, bufEpoch, blockEpoch,
          t_dropped, epoch, ctl>>

hfvars == <<hf, hfcall>>
brfvars == <<brf, brfcall>>
devvars == <<_devs, _devs_mutex, handles, tpc, tvar>>
initvars == <<dict, _num_buffers, _samples_per_buffer, _num_transfers, ipc>>
antvars == <<direction, _chanmap, _enables, antcall>>

\* what the streaming bridge leaves alone
rest == <<hfvars, brfvars, devvars, initvars, antvars>>

allvars == <<vars, hfvars, brfvars, devvars, initvars, antvars>>

calls == Len(req)
blocks == Len(blockEpoch)

Untouched == <<0, 0>>

\* t->samples of block b: _airspyhf_output_size samples, the i-th tagged <<b, i>>
Samples(b) == [i \in 1.._airspyhf_output_size |-> <<b, i>>]

\* std::memcpy(dst, src, n) counted in samples
Memcpy(dst, src, n) == [i \in 1..Len(dst) |-> IF i <= n THEN src[i] ELSE dst[i]]

\* faulty variant: the notification is lost
NotifyOneLost(pc) == pc

\* condition_variable::notify_one: a thread parked in wait() becomes runnable
NotifyOne(pc) == IF pc = "wait" THEN "relock" ELSE pc

\* an assert that failed has ended the process
Running == ctl # "start refused, aborted"

Init ==
    /\ streaming = FALSE
    /\ faulted = FALSE
    /\ _stream_mutex = "free"
    /\ _stream_buff = nullptr
    /\ _dropped_samples \in Uninitialized
    /\ wpc = "idle"
    /\ cpc = "idle"
    /\ spc = "idle"
    /\ req = <<>>
    /\ ret = <<>>
    /\ bufs = <<>>
    /\ copies = <<>>
    /\ bufEpoch = <<>>
    /\ blockEpoch = <<>>
    /\ t_dropped = 0
    /\ epoch = 0
    /\ ctl = "none"

\* ---- start(): airspyhf_start arms the driver, which spawns its consumer thread ----
\* (called on a stopped device; a device that left the streaming state on its own
\* has reached a terminal state and is not started again)
Start ==
    /\ Running
    /\ spc = "idle"
    /\ ~streaming
    /\ ~faulted
    /\ epoch < MaxStarts
    /\ streaming' = TRUE
    /\ epoch' = epoch + 1
    /\ ctl' = "start"
    /\ UNCHANGED rest
    /\ UNCHANGED <<faulted, _stream_mutex, _stream_buff, _dropped_samples, wpc, cpc,
                   spc, req, ret, bufs, copies, bufEpoch, blockEpoch, t_dropped>>

\* start() when airspyhf_start reports an error, in a build that compiles assert()
\* out (NDEBUG): the result is ignored and start() returns true
StartRefusedReturns ==
    /\ Running
    /\ spc = "idle"
    /\ ~streaming
    /\ ctl' = "start refused, returned true"
    /\ UNCHANGED <<streaming, faulted, _stream_mutex, _stream_buff, _dropped_samples,
                   wpc, cpc, spc, req, ret, bufs, copies, bufEpoch, blockEpoch,
                   t_dropped, epoch, rest>>

\* start() when airspyhf_start reports an error, in a build with assert(): the
\* assertion fails and abort() ends the process with all its threads
StartRefusedAborts ==
    /\ Running
    /\ spc = "idle"
    /\ ~streaming
    /\ ctl' = "start refused, aborted"
    /\ UNCHANGED <<streaming, faulted, _stream_mutex, _stream_buff, _dropped_samples,
                   wpc, cpc, spc, req, ret, bufs, copies, bufEpoch, blockEpoch,
                   t_dropped, epoch, rest>>

\* ---- the hardware leaves the streaming state on its own (disconnect, fault) ----
HwFault ==
    /\ Running
    /\ streaming
    /\ streaming' = FALSE
    /\ faulted' = TRUE
    /\ UNCHANGED <<ctl, rest>>
    /\ UNCHANGED <<_stream_mutex, _stream_buff, _dropped_samples, wpc, cpc, spc,
                   req, ret, bufs, copies, bufEpoch, blockEpoch, t_dropped, epoch>>

\* ---- stop() ----
StopCall ==
    /\ Running
    /\ spc = "idle"
    /\ spc' = "lock"
    /\ UNCHANGED <<ctl, rest>>
    /\ UNCHANGED <<streaming, faulted, _stream_mutex, _stream_buff, _dropped_samples,
                   wpc, cpc, req, ret, bufs, copies, bufEpoch, blockEpoch, t_dropped,
                   epoch>>

\* faulty variant: airspyhf_stop waits for the driver thread also when nothing streams
StopLockAlwaysJoins ==
    /\ Running
    /\ spc = "lock"
    /\ _stream_mutex = "free"
    /\ streaming' = FALSE
    /\ _stream_mutex' = "ctl"
    /\ spc' = "join"
    /\ UNCHANGED <<ctl, rest>>
    /\ UNCHANGED <<faulted, _stream_buff, _dropped_samples, wpc, cpc, req, ret, bufs,
                   copies, bufEpoch, blockEpoch, t_dropped, epoch>>

\* stop() takes _stream_mutex and calls airspyhf_stop: on a streaming device the
\* driver withdraws the streaming state and then waits for its consumer thread (the
\* thread that runs the callback) to finish; on a stopped device it returns at once.
StopLock ==
    /\ Running
    /\ spc = "lock"
    /\ _stream_mutex = "free"
    /\ IF streaming
         THEN /\ streaming' = FALSE
              /\ _stream_mutex' = "ctl"
              /\ spc' = "join"
              /\ UNCHANGED ctl
         ELSE /\ spc' = "idle"
              /\ ctl' = "stop, nothing to stop"
              /\ UNCHANGED <<streaming, _stream_mutex>>
    /\ UNCHANGED rest
    /\ UNCHANGED <<faulted, _stream_buff, _dropped_samples, wpc, cpc, req, ret, bufs,
                   copies, bufEpoch, blockEpoch, t_dropped, epoch>>

\* the driver thread has left the callback: airspyhf_stop returns, stop() unlocks
StopJoin ==
    /\ Running
    /\ spc = "join"
    /\ cpc = "idle"
    /\ _stream_mutex' = "free"
    /\ spc' = "idle"
    /\ ctl' = "stop, stream stopped"
    /\ UNCHANGED rest
    /\ UNCHANGED <<streaming, faulted, _stream_buff, _dropped_samples, wpc, cpc, req,
                   ret, bufs, copies, bufEpoch, blockEpoch, t_dropped, epoch>>

\* ---- work() ----
\* the scheduler calls work(noutput_items, ..., output_items) with a fresh buffer
WorkCall(n) ==
    /\ Running
    /\ wpc = "idle"
    /\ calls < MaxCalls
    /\ req' = Append(req, n)
    /\ ret' = Append(ret, PENDING)
    /\ bufs' = Append(bufs, [i \in 1..n |-> Untouched])
    /\ copies' = Append(copies, 0)
    /\ bufEpoch' = Append(bufEpoch, 0)
    /\ wpc' = "lock"
    /\ UNCHANGED <<ctl, rest>>
    /\ UNCHANGED <<streaming, faulted, _stream_mutex, _stream_buff, _dropped_samples,
                   cpc, spc, blockEpoch, t_dropped, epoch>>

\* faulty variant: work() on a stopped device reports a block
StoppedResultBlock == _airspyhf_output_size

\* if (!airspyhf_is_streaming(_dev)) return WORK_DONE;
StoppedResult == WORK_DONE

\* faulty variant: the size test of work() is missing
UndersizedUnchecked(n) == FALSE

\* noutput_items < _airspyhf_output_size
Undersized(n) == n < _airspyhf_output_size

\* work() takes _stream_mutex, returns WORK_DONE on a stopped device and 0 on an
\* undersized request, and otherwise stores its buffer and notifies _stream_cond
WorkLock ==
    /\ Running
    /\ wpc = "lock"
    /\ _stream_mutex = "free"
    /\ IF ~streaming
         THEN /\ ret' = [ret EXCEPT ![calls] = StoppedResult]
              /\ wpc' = "idle"
              /\ UNCHANGED <<_stream_mutex, _stream_buff, cpc, bufEpoch>>
         ELSE IF Undersized(req[calls])
         THEN /\ ret' = [ret EXCEPT ![calls] = 0]
              /\ wpc' = "idle"
              /\ UNCHANGED <<_stream_mutex, _stream_buff, cpc, bufEpoch>>
         ELSE /\ _stream_buff' = calls
              /\ bufEpoch' = [bufEpoch EXCEPT ![calls] = epoch]
              /\ cpc' = NotifyOne(cpc)
              /\ _stream_mutex' = "work"
              /\ wpc' = "check"
              /\ UNCHANGED ret
    /\ UNCHANGED <<ctl, rest>>
    /\ UNCHANGED <<streaming, faulted, _dropped_samples, spc, req, bufs, copies,
                   blockEpoch, t_dropped, epoch>>

\* the value work() returns after its wait
WorkResult == _airspyhf_output_size

\* while (_stream_buff != nullptr && airspyhf_is_streaming(_dev))
\*     _callback_done_cond.wait(lock);
\* return _airspyhf_output_size;      (evaluated with _stream_mutex held)
WorkLoop ==
    /\ IF _stream_buff # nullptr /\ streaming
         THEN /\ wpc' = "wait"
              /\ UNCHANGED ret
         ELSE /\ wpc' = "idle"
              /\ ret' = [ret EXCEPT ![calls] = WorkResult]
    /\ _stream_mutex' = "free"
    /\ UNCHANGED <<streaming, faulted, _stream_buff, _dropped_samples, cpc, spc, req,
                   bufs, copies, bufEpoch, blockEpoch, t_dropped, epoch>>

\* first evaluation of the loop condition, right after the notify
WorkCheck ==
    /\ Running
    /\ wpc = "check"
    /\ UNCHANGED <<ctl, rest>>
    /\ WorkLoop

\* wait() returns: it takes _stream_mutex again and the loop condition is re-evaluated
WorkRelock ==
    /\ Running
    /\ wpc = "relock"
    /\ _stream_mutex = "free"
    /\ UNCHANGED <<ctl, rest>>
    /\ WorkLoop

\* ---- airspyhf_rx_callback() ----
\* the driver's consumer thread calls the callback with the next block
CallbackInvoke(d) ==
    /\ Running
    /\ cpc = "idle"
    /\ streaming
    /\ blocks < MaxBlocks
    /\ blockEpoch' = Append(blockEpoch, epoch)
    /\ t_dropped' = d
    /\ cpc' = "lock"
    /\ UNCHANGED <<ctl, rest>>
    /\ UNCHANGED <<streaming, faulted, _stream_mutex, _stream_buff, _dropped_samples,
                   wpc, spc, req, ret, bufs, copies, bufEpoch, epoch>>

\* faulty variant: the callback leaves the slot as it is after its copy
SlotLeftAfterCopy == _stream_buff

\* _stream_buff = nullptr;
SlotAfterCopy == nullptr

\* the number of samples the callback copies
CopyLength == _airspyhf_output_size

\* what the callback does to _dropped_samples when t->dropped_samples is set:
\* it prints a warning and leaves the counter alone
DroppedAfter(d) == _dropped_samples

\* the callback after its wait: warning, memcpy into the slot's buffer, slot cleared,
\* _callback_done_cond notified, lock released, return 0
CallbackRest ==
    /\ _dropped_samples' = DroppedAfter(t_dropped)
    /\ IF _stream_buff # nullptr
         THEN /\ bufs' = [bufs EXCEPT ![_stream_buff] =
                              Memcpy(@, Samples(blocks), CopyLength)]
              /\ copies' = [copies EXCEPT ![_stream_buff] = @ + 1]
         ELSE UNCHANGED <<bufs, copies>>
    /\ _stream_buff' = SlotAfterCopy
    /\ wpc' = NotifyOne(wpc)
    /\ t_dropped' = 0
    /\ cpc' = "idle"

\* while (_stream_buff == nullptr && airspyhf_is_streaming(_dev))
\*     _stream_cond.wait(lock);       (evaluated with _stream_mutex held)
CallbackLoop ==
    /\ IF _stream_buff = nullptr /\ streaming
         THEN /\ cpc' = "wait"
              /\ UNCHANGED <<_dropped_samples, bufs, copies, _stream_buff, wpc,
                             t_dropped>>
         ELSE CallbackRest
    /\ _stream_mutex' = "free"
    /\ UNCHANGED <<streaming, faulted, spc, req, ret, bufEpoch, blockEpoch, epoch>>

\* the callback takes _stream_mutex
CallbackLock ==
    /\ Running
    /\ cpc = "lock"
    /\ _stream_mutex = "free"
    /\ UNCHANGED <<ctl, rest>>
    /\ CallbackLoop

\* wait() returns: it takes _stream_mutex again and the loop condition is re-evaluated
CallbackRelock ==
    /\ Running
    /\ cpc = "relock"
    /\ _stream_mutex = "free"
    /\ UNCHANGED <<ctl, rest>>
    /\ CallbackLoop

\* ---- condition_variable::wait may return without a notify ----
SpuriousWakeWork ==
    /\ Running
    /\ wpc = "wait"
    /\ wpc' = "relock"
    /\ UNCHANGED <<ctl, rest>>
    /\ UNCHANGED <<streaming, faulted, _stream_mutex, _stream_buff, _dropped_samples,
                   cpc, spc, req, ret, bufs, copies, bufEpoch, blockEpoch, t_dropped,
                   epoch>>

SpuriousWakeCallback ==
    /\ Running
    /\ cpc = "wait"
    /\ cpc' = "relock"
    /\ UNCHANGED <<ctl, rest>>
    /\ UNCHANGED <<streaming, faulted, _stream_mutex, _stream_buff, _dropped_samples,
                   wpc, spc, req, ret, bufs, copies, bufEpoch, blockEpoch, t_dropped,
                   epoch>>

\* ======================================================================
\* airspyhf_source_c: the parameter setters and getters.  A double is kept as
\* a whole number of half units (rates and frequencies in Hz/2, the
\* correction in ppb/2, gains in whole dB), so that the conversions to the
\* integers the hardware takes lose what they lose in the code.
\* ======================================================================

\* the arguments tried
RateArgs == {4, 5}            \* 2 Hz and 2.5 Hz
FreqArgs == {7}               \* 3.5 Hz
PpmArgs == {-3, 2}            \* -1.5 ppb and 1 ppb
GainNames == {"ATT", "LNA", "VGA"}
GainCalls == {<<-12, "ATT">>, <<-8, "ATT">>, <<0, "ATT">>, <<0, "LNA">>, <<6, "LNA">>,
              <<-8, "VGA">>}

\* (uint32_t) rate of a non-negative double
ToUint32(h) == h \div 2

\* (int32_t)(ppm * 1.0e3): the fraction is cut off towards zero
ToInt32(h) == IF h >= 0 THEN h \div 2 ELSE -((-h) \div 2)

\* ppb / 1.0e3
PpbToPpm(ppb) == 2 * ppb

\* std::round(x / 6.0) of a whole x: halves go away from zero
Round6(x) == IF x >= 0 THEN (2 * x + 6) \div 12 ELSE -((2 * (-x) + 6) \div 12)

\* uint8_t _airspyhf_att_db_to_value(double db): std::round(-db/6.0) converted to
\* uint8_t.  A value outside 0..255 has no defined conversion: the build wraps it
\* or saturates it.
_airspyhf_att_db_to_value(db) ==
    LET r == Round6(-db)
    IN  IF r \in 0..255 THEN {r} ELSE {r % 256, IF r < 0 THEN 0 ELSE 255}

\* double _airspyhf_att_value_to_db(uint8_t value)
_airspyhf_att_value_to_db(value) == value * (-6)

\* uint8_t _airspyhf_lna_db_to_flag(double db)
_airspyhf_lna_db_to_flag(db) == IF db >= 3 THEN 1 ELSE 0

\* double _airspyhf_lna_flag_to_db(uint8_t flag)
_airspyhf_lna_flag_to_db(flag) == IF flag # 0 THEN 6 ELSE 0

\* the state the constructor leaves: members as initialized, the hardware programmed
\* with them, set_center_freq(14e6) and set_sample_rate(768e3) accepted or refused
\* (4 and 6 stand for the two requests; a refused request leaves the hardware at
\* its power-on setting, 1)
HfAfterConstruction(freq_ok, rate_ok) ==
    [_sample_rate |-> IF rate_ok THEN 4 ELSE 0,
     _center_freq |-> IF freq_ok THEN 6 ELSE 0,
     _freq_corr |-> 0, _att |-> 0, _lna |-> 1, _agc |-> 1,
     hw_rate |-> IF rate_ok THEN ToUint32(4) ELSE 1,
     hw_freq |-> IF freq_ok THEN ToUint32(6) ELSE 1,
     hw_ppb |-> 0, hw_att |-> 0, hw_lna |-> 1, hw_agc |-> 1]

NoCall == [op |-> "none", name |-> "", arg |-> 0, ok |-> TRUE, tx |-> FALSE,
           ret |-> 0, ended |-> "returned"]

HfInit ==
    /\ \E freq_ok, rate_ok \in BOOLEAN : hf = HfAfterConstruction(freq_ok, rate_ok)
    /\ hfcall = NoCall

\* the component at rest, for the specifications that do not exercise it
HfIdle ==
    /\ hf = HfAfterConstruction(TRUE, TRUE)
    /\ hfcall = NoCall

HfRunning == hfcall.ended # "aborted"

HfFrame == UNCHANGED <<vars, brfvars, devvars, initvars, antvars>>

\* double set_sample_rate(double rate)
HfSetSampleRate(rate, ok) ==
    /\ HfRunning
    /\ hf' = IF ok THEN [hf EXCEPT !._sample_rate = rate, !.hw_rate = ToUint32(rate)]
                   ELSE hf
    /\ hfcall' = [op |-> "set_sample_rate", name |-> "", arg |-> rate, ok |-> ok,
                  tx |-> TRUE, ret |-> hf'._sample_rate, ended |-> "returned"]
    /\ HfFrame

\* double get_sample_rate()
HfGetSampleRate ==
    /\ HfRunning
    /\ hfcall' = [op |-> "get_sample_rate", name |-> "", arg |-> 0, ok |-> TRUE,
                  tx |-> FALSE, ret |-> hf._sample_rate, ended |-> "returned"]
    /\ UNCHANGED hf
    /\ HfFrame

\* double set_center_freq(double freq, size_t chan)
HfSetCenterFreq(freq, ok) ==
    /\ HfRunning
    /\ hf' = IF ok THEN [hf EXCEPT !._center_freq = freq, !.hw_freq = ToUint32(freq)]
                   ELSE hf
    /\ hfcall' = [op |-> "set_center_freq", name |-> "", arg |-> freq, ok |-> ok,
                  tx |-> TRUE, ret |-> hf'._center_freq, ended |-> "returned"]
    /\ HfFrame

\* double get_center_freq(size_t chan)
HfGetCenterFreq ==
    /\ HfRunning
    /\ hfcall' = [op |-> "get_center_freq", name |-> "", arg |-> 0, ok |-> TRUE,
                  tx |-> FALSE, ret |-> hf._center_freq, ended |-> "returned"]
    /\ UNCHANGED hf
    /\ HfFrame

\* double set_freq_corr(double ppm, size_t chan): returns ppm
HfSetFreqCorr(ppm, ok) ==
    /\ HfRunning
    /\ hf' = IF ok THEN [hf EXCEPT !._freq_corr = ppm, !.hw_ppb = ToInt32(ppm)]
                   ELSE hf
    /\ hfcall' = [op |-> "set_freq_corr", name |-> "", arg |-> ppm, ok |-> ok,
                  tx |-> TRUE, ret |-> ppm, ended |-> "returned"]
    /\ HfFrame

\* double get_freq_corr(size_t chan): reads the hardware's calibration
HfGetFreqCorr ==
    /\ HfRunning
    /\ hfcall' = [op |-> "get_freq_corr", name |-> "", arg |-> 0, ok |-> TRUE,
                  tx |-> FALSE, ret |-> PpbToPpm(hf.hw_ppb), ended |-> "returned"]
    /\ UNCHANGED hf
    /\ HfFrame

\* the branch of set_gain that a stage name takes; faulty variant: every name but
\* "LNA" is taken for the attenuator
GainStageDefaultsATT(name) == IF name = "LNA" THEN "LNA" ELSE "ATT"

GainStage(name) ==
    IF name = "ATT" THEN "ATT" ELSE IF name = "LNA" THEN "LNA" ELSE "unknown"

\* if(_att != att); faulty variant: the attenuator is written on every call
AttAlwaysWritten(att) == TRUE

AttDiffers(att) == hf._att # att

\* if(_lna != lna)
LnaDiffers(lna) == hf._lna # lna

\* if(_agc != automatic)
AgcDiffers(automatic) == hf._agc # automatic

\* a call that an assert ended
HfAborted(op, name, arg) ==
    [op |-> op, name |-> name, arg |-> arg, ok |-> FALSE, tx |-> TRUE, ret |-> 0,
     ended |-> "aborted"]

\* double set_gain(double gain, const std::string & name, size_t chan), name "ATT".
\* A refused write trips the assert (asserts) or, with the assert compiled out,
\* is followed by the assignment to _att.
HfSetGainATT(gain, name, ok, asserts) ==
    \E att \in _airspyhf_att_db_to_value(gain) :
        IF AttDiffers(att)
        THEN IF ~ok /\ asserts
             THEN /\ hf' = hf
                  /\ hfcall' = HfAborted("set_gain", name, gain)
             ELSE /\ hf' = [hf EXCEPT !._att = att,
                                      !.hw_att = IF ok THEN att ELSE @]
                  /\ hfcall' = [op |-> "set_gain", name |-> name, arg |-> gain,
                                ok |-> ok, tx |-> TRUE,
                                ret |-> _airspyhf_att_value_to_db(att),
                                ended |-> "returned"]
        ELSE /\ hf' = hf
             /\ hfcall' = [op |-> "set_gain", name |-> name, arg |-> gain, ok |-> TRUE,
                           tx |-> FALSE, ret |-> _airspyhf_att_value_to_db(hf._att),
                           ended |-> "returned"]

\* set_gain, name "LNA"
HfSetGainLNA(gain, name, ok, asserts) ==
    LET lna == _airspyhf_lna_db_to_flag(gain)
    IN  IF LnaDiffers(lna)
        THEN IF ~ok /\ asserts
             THEN /\ hf' = hf
                  /\ hfcall' = HfAborted("set_gain", name, gain)
             ELSE /\ hf' = [hf EXCEPT !._lna = lna,
                                      !.hw_lna = IF ok THEN lna ELSE @]
                  /\ hfcall' = [op |-> "set_gain", name |-> name, arg |-> gain,
                                ok |-> ok, tx |-> TRUE,
                                ret |-> _airspyhf_lna_flag_to_db(lna),
                                ended |-> "returned"]
        ELSE /\ hf' = hf
             /\ hfcall' = [op |-> "set_gain", name |-> name, arg |-> gain, ok |-> TRUE,
                           tx |-> FALSE, ret |-> _airspyhf_lna_flag_to_db(hf._lna),
                           ended |-> "returned"]

\* set_gain, any other name: a warning, and 0.0
HfSetGainUnknown(gain, name) ==
    /\ hf' = hf
    /\ hfcall' = [op |-> "set_gain", name |-> name, arg |-> gain, ok |-> TRUE,
                  tx |-> FALSE, ret |-> 0, ended |-> "returned"]

HfSetGain(gain, name, ok, asserts) ==
    /\ HfRunning
    /\ CASE GainStage(name) = "ATT" -> HfSetGainATT(gain, name, ok, asserts)
         [] GainStage(name) = "LNA" -> HfSetGainLNA(gain, name, ok, asserts)
         [] OTHER -> HfSetGainUnknown(gain, name)
    /\ HfFrame

\* double get_gain(const std::string &name, size_t chan)
get_gain(name) ==
    IF name = "ATT" THEN _airspyhf_att_value_to_db(hf._att)
    ELSE IF name = "LNA" THEN _airspyhf_lna_flag_to_db(hf._lna)
    ELSE 0

HfGetGain(name) ==
    /\ HfRunning
    /\ hfcall' = [op |-> "get_gain", name |-> name, arg |-> 0, ok |-> TRUE,
                  tx |-> FALSE, ret |-> get_gain(name), ended |-> "returned"]
    /\ UNCHANGED hf
    /\ HfFrame

\* bool set_gain_mode(bool automatic, size_t chan): _agc is assigned before the
\* hardware is asked
HfSetGainMode(automatic, ok, asserts) ==
    /\ HfRunning
    /\ IF AgcDiffers(automatic)
       THEN /\ hf' = [hf EXCEPT !._agc = automatic,
                                !.hw_agc = IF ok THEN automatic ELSE @]
            /\ hfcall' = IF ~ok /\ asserts
                         THEN HfAborted("set_gain_mode", "", automatic)
                         ELSE [op |-> "set_gain_mode", name |-> "", arg |-> automatic,
                               ok |-> ok, tx |-> TRUE, ret |-> automatic,
                               ended |-> "returned"]
       ELSE /\ hf' = hf
            /\ hfcall' = [op |-> "set_gain_mode", name |-> "", arg |-> automatic,
                          ok |-> TRUE, tx |-> FALSE, ret |-> hf._agc,
                          ended |-> "returned"]
    /\ HfFrame

HfNext ==
    \/ \E rate \in RateArgs, ok \in BOOLEAN : HfSetSampleRate(rate, ok)
    \/ HfGetSampleRate
    \/ \E freq \in FreqArgs, ok \in BOOLEAN : HfSetCenterFreq(freq, ok)
    \/ HfGetCenterFreq
    \/ \E ppm \in PpmArgs, ok \in BOOLEAN : HfSetFreqCorr(ppm, ok)
    \/ HfGetFreqCorr
    \/ \E call \in GainCalls, ok, asserts \in BOOLEAN :
           HfSetGain(call[1], call[2], ok, asserts)
    \/ \E name \in GainNames : HfGetGain(name)
    \/ \E automatic \in 0..1, ok, asserts \in BOOLEAN : HfSetGainMode(automatic, ok, asserts)


\* ======================================================================
\* bladerf_common: sample rate and centre frequency.  Doubles are whole numbers
\* of half Hz, the hardware's integers are whole Hz.
\* ======================================================================

\* the tunable range, scaled down: FreqMin stands for 280e6 (no expansion board;
\* with one the range starts at 0), FreqMax for BLADERF_FREQUENCY_MAX
FreqMin == 3
FreqMax == 6

\* the frequencies and rates tried, in half Hz
BrfFreqArgs == 0..(2 * FreqMax + 3)
BrfRateArgs == {4, 5}

\* osmosdr::freq_range_t freq_range(bladerf_channel ch)
freq_range(xb) == [start |-> IF xb THEN 0 ELSE FreqMin, stop |-> FreqMax]

\* static_cast<uint64_t>(freq + 0.5) of a non-negative double
Freqint(freq) == (freq + 1) \div 2

\* static_cast<double>(freq) of the hardware's integer
ToDouble(n) == 2 * n

\* faulty variant of the range check: the upper end is not tested
OutsideRangeNoStop(freqint, range) == freqint < range.start

\* if (freqint < freq_range(ch).start() || freqint > freq_range(ch).stop())
OutsideRange(freqint, range) == freqint < range.start \/ freqint > range.stop

BrfAfterConstruction(freq) == [hw_freq |-> freq, hw_rate |-> 4, xb |-> FALSE]

BrfNoCall(op) == [op |-> op, arg |-> 0, tx |-> FALSE, ret |-> 0, ended |-> "returned"]

BrfInit ==
    /\ \E freq \in {FreqMin, FreqMax} : brf = BrfAfterConstruction(freq)
    /\ brfcall = BrfNoCall("none")

BrfIdle ==
    /\ brf = BrfAfterConstruction(FreqMin)
    /\ brfcall = BrfNoCall("none")

BrfFrame == UNCHANGED <<vars, hfvars, devvars, initvars, antvars>>

\* double set_center_freq(double freq, bladerf_channel ch): set_ok and get_ok are
\* the statuses of bladerf_set_frequency and bladerf_get_frequency
BrfSetCenterFreq(freq, set_ok, get_ok) ==
    LET freqint == Freqint(freq)
        written == ~OutsideRange(freqint, freq_range(brf.xb))
    IN  /\ brf' = IF written /\ set_ok THEN [brf EXCEPT !.hw_freq = freqint] ELSE brf
        /\ brfcall' = [op |-> "set_center_freq", arg |-> freq, tx |-> written,
                       ret |-> IF (written => set_ok) /\ get_ok
                               THEN ToDouble(brf'.hw_freq) ELSE 0,
                       ended |-> IF written /\ ~set_ok THEN "threw, set failed"
                                 ELSE IF ~get_ok THEN "threw, get failed"
                                 ELSE "returned"]
        /\ BrfFrame

\* double get_center_freq(bladerf_channel ch)
BrfGetCenterFreq(get_ok) ==
    /\ brfcall' = [op |-> "get_center_freq", arg |-> 0, tx |-> FALSE,
                   ret |-> IF get_ok THEN ToDouble(brf.hw_freq) ELSE 0,
                   ended |-> IF get_ok THEN "returned" ELSE "threw, get failed"]
    /\ UNCHANGED brf
    /\ BrfFrame

\* double set_sample_rate(double rate, bladerf_channel ch): the hardware programs
\* the rational rate or a quantized one (actual) and the call returns it
BrfSetSampleRate(rate, actual, set_ok) ==
    /\ brf' = IF set_ok THEN [brf EXCEPT !.hw_rate = actual] ELSE brf
    /\ brfcall' = [op |-> "set_sample_rate", arg |-> rate, tx |-> TRUE,
                   ret |-> IF set_ok THEN actual ELSE 0,
                   ended |-> IF set_ok THEN "returned" ELSE "threw, set failed"]
    /\ BrfFrame

\* double get_sample_rate(bladerf_channel ch)
BrfGetSampleRate(get_ok) ==
    /\ brfcall' = [op |-> "get_sample_rate", arg |-> 0, tx |-> FALSE,
                   ret |-> IF get_ok THEN brf.hw_rate ELSE 0,
                   ended |-> IF get_ok THEN "returned" ELSE "threw, get failed"]
    /\ UNCHANGED brf
    /\ BrfFrame

\* an expansion board is attached or detached: _is_xb_attached(_dev) changes
BrfSetXb(xb) ==
    /\ brf.xb # xb
    /\ brf' = [brf EXCEPT !.xb = xb]
    /\ brfcall' = BrfNoCall("xb")
    /\ BrfFrame

BrfNext ==
    \/ \E freq \in BrfFreqArgs, set_ok, get_ok \in BOOLEAN :
           BrfSetCenterFreq(freq, set_ok, get_ok)
    \/ \E get_ok \in BOOLEAN : BrfGetCenterFreq(get_ok)
    \/ \E rate \in BrfRateArgs, set_ok \in BOOLEAN :
           \E actual \in {rate, 2 * (rate \div 2)} : BrfSetSampleRate(rate, actual, set_ok)
    \/ \E get_ok \in BOOLEAN : BrfGetSampleRate(get_ok)
    \/ \E xb \in BOOLEAN : BrfSetXb(xb)


\* ======================================================================
\* bladerf_common: the device registry.  Each thread is an owner of one _dev
\* member; open(), the release of _dev and the deleter close() run step by step.
\* ======================================================================

MaxConns == 3                \* bladerf_open_with_devinfo succeeds at most so often
Threads == {1, 2}
Units == {"A", "B"}

\* a weak handle has expired when no shared handle is left
Expired(h) == handles[h].use_count = 0

\* bladerf_devinfo_matches(&devinfo, &other_devinfo)
bladerf_devinfo_matches(unit, h) == handles[h].unit = unit

\* the connections that bladerf_close has not been called on
OpenConnections(unit) == {h \in DOMAIN handles : handles[h].unit = unit /\ handles[h].closes = 0}

Locals == [_dev |-> 0, unit |-> "A", i |-> 0, closing |-> 0, out |-> "none"]

DevInit ==
    /\ _devs = <<>>
    /\ _devs_mutex = 0
    /\ handles = <<>>
    /\ tpc = [t \in Threads |-> "idle"]
    /\ tvar = [t \in Threads |-> Locals]

DevAlive == \A t \in Threads : tpc[t] # "terminated"

DevFrame == UNCHANGED <<vars, hfvars, brfvars, initvars, antvars>>

\* a thread leaves open() or close(): the lock_guard releases _devs_mutex
Leave(t, out) ==
    /\ _devs_mutex' = 0
    /\ tpc' = [tpc EXCEPT ![t] = "idle"]
    /\ tvar' = [tvar EXCEPT ![t].out = out, ![t].i = 0, ![t].closing = 0]

\* bladerf_sptr open(std::string const &device_name) is called by an owner whose
\* _dev is empty
OpenCall(t, unit) ==
    /\ DevAlive
    /\ tpc[t] = "idle"
    /\ tvar[t]._dev = 0
    /\ Len(handles) < MaxConns
    /\ tpc' = [tpc EXCEPT ![t] = "open: lock"]
    /\ tvar' = [tvar EXCEPT ![t].unit = unit, ![t].out = "none"]
    /\ UNCHANGED <<_devs, _devs_mutex, handles>>
    /\ DevFrame

\* std::lock_guard<std::mutex> lock(_devs_mutex), then bladerf_get_devinfo_from_str
OpenLock(t, ok) ==
    /\ DevAlive
    /\ tpc[t] = "open: lock"
    /\ _devs_mutex = 0
    /\ IF ok
       THEN /\ _devs_mutex' = t
            /\ tpc' = [tpc EXCEPT ![t] = "open: lookup"]
            /\ tvar' = [tvar EXCEPT ![t].i = 1]
       ELSE Leave(t, "threw, devinfo")
    /\ UNCHANGED <<_devs, handles>>
    /\ DevFrame

\* get_cached_device, the next entry: bladerf_sptr(dev) is made of the weak handle,
\* which throws std::bad_weak_ptr when it has expired
Lookup(t) ==
    /\ DevAlive
    /\ tpc[t] = "open: lookup"
    /\ IF tvar[t].i > Len(_devs)
       THEN /\ tpc' = [tpc EXCEPT ![t] = "open: hw"]
            /\ UNCHANGED <<_devs_mutex, handles, tvar>>
       ELSE LET h == _devs[tvar[t].i]
            IN  IF Expired(h)
                THEN /\ Leave(t, "threw, bad_weak_ptr")
                     /\ UNCHANGED handles
                ELSE /\ handles' = [handles EXCEPT ![h].use_count = @ + 1]
                     /\ tpc' = [tpc EXCEPT ![t] = "open: devinfo"]
                     /\ UNCHANGED <<_devs_mutex, tvar>>
    /\ UNCHANGED _devs
    /\ DevFrame

\* bladerf_get_devinfo returns and the temporary handle is destroyed.  When it was
\* the last one the deleter close() runs in this thread, which holds _devs_mutex
\* already: locking it again blocks for good or ends the process.
Devinfo(t, ok, blocks_on_relock) ==
    /\ DevAlive
    /\ tpc[t] = "open: devinfo"
    /\ LET h == _devs[tvar[t].i]
       IN  /\ handles' = [handles EXCEPT ![h].use_count = @ - 1]
           /\ IF handles[h].use_count = 1
              THEN /\ tpc' = [tpc EXCEPT ![t] = IF blocks_on_relock THEN "deadlocked"
                                                ELSE "terminated"]
                   /\ tvar' = [tvar EXCEPT ![t].closing = h]
                   /\ UNCHANGED _devs_mutex
              ELSE IF ok
                   THEN /\ tpc' = [tpc EXCEPT ![t] = "open: match"]
                        /\ UNCHANGED <<_devs_mutex, tvar>>
                   ELSE Leave(t, "threw, devinfo")
    /\ UNCHANGED _devs
    /\ DevFrame

\* bladerf_devinfo_matches, and on a match return bladerf_sptr(dev)
Match(t) ==
    /\ DevAlive
    /\ tpc[t] = "open: match"
    /\ LET h == _devs[tvar[t].i]
       IN  IF bladerf_devinfo_matches(tvar[t].unit, h)
           THEN IF Expired(h)
                THEN /\ Leave(t, "threw, bad_weak_ptr")
                     /\ UNCHANGED handles
                ELSE /\ handles' = [handles EXCEPT ![h].use_count = @ + 1]
                     /\ _devs_mutex' = 0
                     /\ tpc' = [tpc EXCEPT ![t] = "idle"]
                     /\ tvar' = [tvar EXCEPT ![t]._dev = h, ![t].out = "cached", ![t].i = 0]
           ELSE /\ tvar' = [tvar EXCEPT ![t].i = @ + 1]
                /\ tpc' = [tpc EXCEPT ![t] = "open: lookup"]
                /\ UNCHANGED <<_devs_mutex, handles>>
    /\ UNCHANGED _devs
    /\ DevFrame

\* bladerf_open_with_devinfo, then the new handle is added to _devs and returned
OpenHw(t, ok) ==
    /\ DevAlive
    /\ tpc[t] = "open: hw"
    /\ IF ok
       THEN /\ handles' = Append(handles, [unit |-> tvar[t].unit, use_count |-> 1, closes |-> 0])
            /\ _devs' = Append(_devs, Len(handles) + 1)
            /\ _devs_mutex' = 0
            /\ tpc' = [tpc EXCEPT ![t] = "idle"]
            /\ tvar' = [tvar EXCEPT ![t]._dev = Len(handles) + 1, ![t].out = "opened",
                                    ![t].i = 0]
       ELSE /\ Leave(t, "threw, open")
            /\ UNCHANGED <<_devs, handles>>
    /\ DevFrame

\* the owner lets go of _dev; the last handle gone, the deleter close() is entered
Release(t) ==
    /\ DevAlive
    /\ tpc[t] = "idle"
    /\ tvar[t]._dev # 0
    /\ LET h == tvar[t]._dev
       IN  /\ handles' = [handles EXCEPT ![h].use_count = @ - 1]
           /\ IF handles[h].use_count = 1
              THEN /\ tpc' = [tpc EXCEPT ![t] = "close: lock"]
                   /\ tvar' = [tvar EXCEPT ![t]._dev = 0, ![t].closing = h, ![t].out = "none"]
              ELSE /\ tvar' = [tvar EXCEPT ![t]._dev = 0, ![t].out = "released"]
                   /\ UNCHANGED tpc
    /\ UNCHANGED <<_devs, _devs_mutex>>
    /\ DevFrame

\* faulty variant of the pruning: close() leaves _devs as it is
PrunedNothing(devs) == devs

\* close(): the entries that have expired are erased
Pruned(devs) == SelectSeq(devs, LAMBDA h : ~Expired(h))

\* void close(void *dev): the lock is taken and _devs pruned
CloseLock(t) ==
    /\ DevAlive
    /\ tpc[t] = "close: lock"
    /\ _devs_mutex = 0
    /\ _devs_mutex' = t
    /\ _devs' = Pruned(_devs)
    /\ tpc' = [tpc EXCEPT ![t] = "close: hw"]
    /\ UNCHANGED <<handles, tvar>>
    /\ DevFrame

\* bladerf_close(dev), and close() returns
CloseHw(t) ==
    /\ DevAlive
    /\ tpc[t] = "close: hw"
    /\ handles' = [handles EXCEPT ![tvar[t].closing].closes = @ + 1]
    /\ Leave(t, "closed")
    /\ UNCHANGED _devs
    /\ DevFrame

DevNext ==
    \/ \E t \in Threads, unit \in Units : OpenCall(t, unit)
    \/ \E t \in Threads, ok \in BOOLEAN : OpenLock(t, ok)
    \/ \E t \in Threads : Lookup(t)
    \/ \E t \in Threads, ok, blocks_on_relock \in BOOLEAN : Devinfo(t, ok, blocks_on_relock)
    \/ \E t \in Threads : Match(t)
    \/ \E t \in Threads, ok \in BOOLEAN : OpenHw(t, ok)
    \/ \E t \in Threads : Release(t)
    \/ \E t \in Threads : CloseLock(t)
    \/ \E t \in Threads : CloseHw(t)


\* ======================================================================
\* bladerf_common::init(): the buffer and transfer configuration
\* ======================================================================

NUM_BUFFERS == 512
NUM_SAMPLES_PER_BUFFER == 4 * 1024
NUM_TRANSFERS == 32

\* the values tried for the arguments; <<>> is an argument that is not given
BuffersArgs == {0, 1, 2, 3, 4, 5, 64, 65, 600}
BuflenArgs == {0, 1000, 1024, 3072}
TransfersArgs == {0, 1, 2, 3, 4, 31, 32, 33, 64, 600}
Given(args) == {<<>>} \cup {<<n>> : n \in args}

Min(a, b) == IF a <= b THEN a ELSE b

\* the members as the constructor initializes them
Constructed ==
    /\ _num_buffers = NUM_BUFFERS
    /\ _samples_per_buffer = NUM_SAMPLES_PER_BUFFER
    /\ _num_transfers = NUM_TRANSFERS
    /\ ipc = "constructed"

SizingInit ==
    /\ dict \in [buffers : Given(BuffersArgs), buflen : Given(BuflenArgs),
                 transfers : Given(TransfersArgs)]
    /\ Constructed

SizingIdle ==
    /\ dict = [buffers |-> <<>>, buflen |-> <<>>, transfers |-> <<>>]
    /\ Constructed

\* if (dict.count(key)) member = boost::lexical_cast<size_t>(_get(dict, key));
FromDict(arg, member) == IF arg # <<>> THEN arg[1] ELSE member

\* if (_num_buffers <= 1) _num_buffers = NUM_BUFFERS;
NumBuffers(n) == IF n <= 1 THEN NUM_BUFFERS ELSE n

\* the test of _samples_per_buffer: 0, or no multiple of 1024, gives the default
SamplesPerBuffer(n) ==
    IF n = 0 THEN NUM_SAMPLES_PER_BUFFER
    ELSE IF n < 1024 \/ n % 1024 # 0 THEN NUM_SAMPLES_PER_BUFFER
    ELSE n

\* faulty variant: a transfer count is kept whatever the number of buffers
NumTransfersUnclamped(n, buffers) == n

\* the test of _num_transfers: 0, or as many as there are buffers or more, gives
\* std::min(NUM_TRANSFERS, _num_buffers / 2)
NumTransfers(n, buffers) ==
    IF n = 0 THEN Min(NUM_TRANSFERS, buffers \div 2)
    ELSE IF n >= buffers THEN Min(NUM_TRANSFERS, buffers \div 2)
    ELSE n

\* void init(dict_t const &dict, bladerf_direction direction), the part that sets up
\* the buffers and transfers
BladerfInit ==
    /\ ipc = "constructed"
    /\ _num_buffers' = NumBuffers(FromDict(dict.buffers, _num_buffers))
    /\ _samples_per_buffer' = SamplesPerBuffer(FromDict(dict.buflen, _samples_per_buffer))
    /\ _num_transfers' = NumTransfers(FromDict(dict.transfers, _num_transfers), _num_buffers')
    /\ ipc' = "initialized"
    /\ UNCHANGED <<dict, vars, hfvars, brfvars, devvars, antvars>>

SizingNext == BladerfInit

\* ======================================================================
\* bladerf_common: antennas and ports
\* ======================================================================

\* the number of channels of a direction that the board has
MaxChannels == 2

BLADERF_CHANNEL_INVALID == -1
BLADERF_CHANNEL_RX(ch) == 2 * ch
BLADERF_CHANNEL_TX(ch) == 2 * ch + 1

\* static bool _is_tx(bladerf_channel ch): bit 0 of the channel
_is_tx(ch) == ch % 2 = 1

\* int channel2rfport(bladerf_channel ch)
channel2rfport(ch) == ch \div 2

\* an antenna name is a prefix and a number: <<"RX", 1>> is "RX1"
\* bladerf_channel str2channel(std::string const &ch)
str2channel(ch) ==
    IF ch[1] = "RX" THEN BLADERF_CHANNEL_RX(ch[2] - 1)
    ELSE IF ch[1] = "TX" THEN BLADERF_CHANNEL_TX(ch[2] - 1)
    ELSE BLADERF_CHANNEL_INVALID

\* std::string channel2str(bladerf_channel ch)
channel2str(ch) ==
    IF ch = BLADERF_CHANNEL_INVALID THEN <<"OFF", 0>>
    ELSE <<IF _is_tx(ch) THEN "TX" ELSE "RX", channel2rfport(ch) + 1>>

\* size_t get_max_channels(bladerf_direction direction)
get_max_channels(dir) == MaxChannels

\* std::vector<std::string> get_antennas(bladerf_direction dir)
get_antennas(dir) ==
    {channel2str(IF dir = "RX" THEN BLADERF_CHANNEL_RX(i) ELSE BLADERF_CHANNEL_TX(i)) :
        i \in 0..(get_max_channels(dir) - 1)}

\* bool is_antenna_valid(bladerf_direction dir, const std::string &antenna)
is_antenna_valid(dir, antenna) == antenna \in get_antennas(dir)

\* (int)chan of a size_t: the ports of ChanArgs are below 2^31 and keep their value
PortInt(chan) == chan

\* std::map: an assignment through operator[]
Put(map, key, value) ==
    [k \in DOMAIN map \cup {key} |-> IF k = key THEN value ELSE map[k]]

\* std::map: a read through operator[], which inserts a value-initialized element
\* for a key that is not there
Subscripted(map, key, zero) == IF key \in DOMAIN map THEN map ELSE Put(map, key, zero)

\* bladerf_channel chan2channel(bladerf_direction direction, size_t chan): the
\* first channel, in the order of the keys, of that direction on that port
chan2channel(map, dir, chan) ==
    LET hits == {ch \in DOMAIN map :
                    /\ map[ch] = PortInt(chan)
                    /\ \/ dir = "TX" /\ _is_tx(ch)
                       \/ dir = "RX" /\ ~_is_tx(ch)}
    IN  IF hits = {} THEN BLADERF_CHANNEL_INVALID
        ELSE CHOOSE ch \in hits : \A other \in hits : ch <= other

\* bool get_channel_enable(bladerf_channel ch)
get_channel_enable(ch) == ch \in DOMAIN _enables /\ _enables[ch]

\* the ports and antenna names that set_antenna is called with
ChanArgs == 0..MaxChannels
AntennaArgs == {<<prefix, n>> : prefix \in {"RX", "TX"}, n \in 1..(MaxChannels + 1)}
                  \cup {<<"OFF", 0>>}

AntChannels(dir) == {str2channel(ant) : ant \in get_antennas(dir)}

AntNoCall == [chan |-> 0, antenna |-> <<"OFF", 0>>, ret |-> "none"]

\* the maps when the source or sink is constructed: every antenna of the
\* direction has an entry, no port has two antennas, an antenna on a port is
\* enabled
AntInit ==
    /\ direction \in {"RX", "TX"}
    /\ _chanmap \in [AntChannels(direction) -> {-1} \cup 0..(MaxChannels - 1)]
    /\ \A a, b \in DOMAIN _chanmap : (a # b /\ _chanmap[a] # -1) => _chanmap[a] # _chanmap[b]
    /\ _enables = [ch \in DOMAIN _chanmap |-> _chanmap[ch] # -1]
    /\ antcall = AntNoCall

AntIdle ==
    /\ direction = "RX"
    /\ _chanmap = [ch \in AntChannels("RX") |-> -1]
    /\ _enables = [ch \in AntChannels("RX") |-> FALSE]
    /\ antcall = AntNoCall

\* faulty variant: the port's old antenna stays on the port
SwapAntennasKeepsOld(map, old_channel, new_channel, old_chan, chan) ==
    Put(map, new_channel, PortInt(chan))

\* _chanmap[old_channel] = old_chan; _chanmap[new_channel] = chan;
SwapAntennas(map, old_channel, new_channel, old_chan, chan) ==
    Put(Put(map, old_channel, old_chan), new_channel, PortInt(chan))

\* bool set_antenna(bladerf_direction dir, size_t chan, const std::string &antenna)
SetAntenna(chan, antenna) ==
    /\ IF ~is_antenna_valid(direction, antenna)
       THEN /\ antcall' = [chan |-> chan, antenna |-> antenna, ret |-> "threw"]
            /\ UNCHANGED <<_chanmap, _enables>>
       ELSE LET old_channel == chan2channel(_chanmap, direction, chan)
                new_channel == str2channel(antenna)
                read == Subscripted(_chanmap, new_channel, 0)
                old_chan == read[new_channel]
            IN  /\ IF old_channel # new_channel \/ old_chan # PortInt(chan)
                   THEN /\ _chanmap' = SwapAntennas(read, old_channel, new_channel,
                                                    old_chan, chan)
                        /\ _enables' =
                               Put(IF old_chan = -1 THEN Put(_enables, old_channel, FALSE)
                                   ELSE _enables,
                                   new_channel, TRUE)
                   ELSE /\ _chanmap' = read
                        /\ UNCHANGED _enables
                /\ antcall' = [chan |-> chan, antenna |-> antenna, ret |-> "true"]
    /\ UNCHANGED <<direction, vars, hfvars, brfvars, devvars, initvars>>

AntNext == \E chan \in ChanArgs, antenna \in AntennaArgs : SetAntenna(chan, antenna)

\* every component after construction
AllInit == Init /\ HfIdle /\ BrfIdle /\ DevInit /\ SizingIdle /\ AntIdle

Next ==
    \/ Start
    \/ StartRefusedReturns
    \/ StartRefusedAborts
    \/ HwFault
    \/ StopCall
    \/ StopLock
    \/ StopJoin
    \/ \E n \in 1..MaxItems : WorkCall(n)
    \/ WorkLock
    \/ WorkCheck
    \/ WorkRelock
    \/ \E d \in 0..MaxDropped : CallbackInvoke(d)
    \/ CallbackLock
    \/ CallbackRelock
    \/ SpuriousWakeWork
    \/ SpuriousWakeCallback

Spec == AllInit /\ [][Next]_allvars

\* the threads keep running: a thread that can take its next step takes it.  No
\* fairness for the scheduler's calls, the hardware or spurious wake-ups.
Fairness ==
    /\ WF_vars(StopLock)
    /\ WF_vars(StopJoin)
    /\ WF_vars(WorkLock)
    /\ WF_vars(WorkCheck)
    /\ WF_vars(WorkRelock)
    /\ WF_vars(CallbackLock)
    /\ WF_vars(CallbackRelock)

FairSpec == Spec /\ Fairness

\* the hardware, too, keeps going: while it streams it delivers its next block
StreamingFairSpec == FairSpec /\ WF_vars(\E d \in 0..MaxDropped : CallbackInvoke(d))

\* the bridge at rest, for the specifications of the other components
BridgeIdle == Init /\ _dropped_samples = 0

\* the parameters of airspyhf_source_c
HfAllInit == BridgeIdle /\ HfInit /\ BrfIdle /\ DevInit /\ SizingIdle /\ AntIdle

HfSpec == HfAllInit /\ [][HfNext]_allvars

\* the parameters of bladerf_common
BrfAllInit == BridgeIdle /\ HfIdle /\ BrfInit /\ DevInit /\ SizingIdle /\ AntIdle

BrfSpec == BrfAllInit /\ [][BrfNext]_allvars

\* set_gain and get_gain of the attenuator, with gains inside and outside the
\* advertised range of -48..0 dB
AttGainArgs == {-60, -54, -51, -48, -45, -6, -3, 0, 3, 6}

AttNext ==
    \/ \E gain \in AttGainArgs, ok, asserts \in BOOLEAN : HfSetGain(gain, "ATT", ok, asserts)
    \/ HfGetGain("ATT")

AttAllInit == BridgeIdle /\ HfInit /\ BrfIdle /\ DevInit /\ SizingIdle /\ AntIdle

AttSpec == AttAllInit /\ [][AttNext]_allvars

\* set_antenna of bladerf_common
AntAllInit == BridgeIdle /\ HfIdle /\ BrfIdle /\ DevInit /\ SizingIdle /\ AntInit

AntSpec == AntAllInit /\ [][AntNext]_allvars

\* init() of bladerf_common
SizingAllInit == BridgeIdle /\ HfIdle /\ BrfIdle /\ DevInit /\ SizingInit /\ AntIdle

SizingSpec == SizingAllInit /\ [][SizingNext]_allvars

\* the device registry of bladerf_common
DevAllInit == BridgeIdle /\ HfIdle /\ BrfIdle /\ DevInit /\ SizingIdle /\ AntIdle

DevSpec == DevAllInit /\ [][DevNext]_allvars

TypeOK ==
    /\ streaming \in BOOLEAN
    /\ faulted \in BOOLEAN
    /\ _stream_mutex \in {"free", "work", "ctl"}
    /\ _stream_buff \in 0..calls
    /\ wpc \in {"idle", "lock", "check", "wait", "relock"}
    /\ cpc \in {"idle", "lock", "wait", "relock"}
    /\ spc \in {"idle", "lock", "join"}
    /\ (_stream_mutex = "work") = (wpc = "check")
    /\ (_stream_mutex = "ctl") = (spc = "join")

\* ---- helpers of the claims ----
\* the work() calls that have returned the native block size, and the rank of one
Succeeded == {c \in 1..calls : ret[c] = _airspyhf_output_size}
Rank(c) == Cardinality({d \in Succeeded : d <= c})

\* buffer c holds block b whole in its first samples and nothing else
HoldsBlock(c, b) ==
    \A i \in 1..Len(bufs[c]) :
        bufs[c][i] = IF i <= _airspyhf_output_size THEN <<b, i>> ELSE Untouched

IsUntouched(c) == \A i \in 1..Len(bufs[c]) : bufs[c][i] = Untouched

\* C1: the buffers of the work() calls that returned the native block size hold, in
\* call order, the first blocks the hardware handed to the callback: the k-th such
\* call holds block k, whole.
Ordering ==
    \A c \in Succeeded : Rank(c) <= blocks /\ HoldsBlock(c, Rank(c))

\* C2: the slot holds nullptr or one buffer, and every buffer work() has offered
\* was written by at most one memcpy, and then holds exactly one whole block in its
\* first _airspyhf_output_size samples; otherwise it is untouched.
AtMostOneSlot ==
    /\ _stream_buff \in 0..calls
    /\ \A c \in 1..calls :
        /\ copies[c] <= 1
        /\ copies[c] = 0 => IsUntouched(c)
        /\ copies[c] = 1 => \E b \in 1..blocks : HoldsBlock(c, b)

\* C2 witness: one offered buffer, larger than a block, was filled by the callback
\* while another offered buffer was left untouched.
AtMostOneSlotWitness ==
    \E c, d \in 1..calls :
        /\ copies[c] = 1 /\ Len(bufs[c]) > _airspyhf_output_size
        /\ bufEpoch[d] > 0 /\ copies[d] = 0 /\ ret[d] # PENDING

\* C3: once streaming has ended while work() is parked on _callback_done_cond,
\* that work() call eventually returns.
CleanStop == (wpc = "wait" /\ ~streaming) ~> (wpc = "idle")

\* C4: work() returns the native block size only when the callback has filled the
\* offered buffer with one block; a wait ended by the end of streaming does not.
EndOfStreamResult ==
    \A c \in 1..calls :
        ret[c] = _airspyhf_output_size =>
            copies[c] = 1 /\ \E b \in 1..blocks : HoldsBlock(c, b)

\* C5: stop() never holds _stream_mutex waiting for the driver thread to finish
\* while that thread is inside the callback, waiting for the lock or for a signal.
StopDeadlockFree ==
    ~(spc = "join" /\ _stream_mutex = "ctl" /\ cpc \in {"lock", "wait", "relock"})

\* C6: when stop() returns, the slot is empty.
StopClearsSlot ==
    [][(spc # "idle" /\ spc' = "idle") => _stream_buff' = nullptr]_vars

\* every copied block was handed over under the start() that the buffer was offered in
SameEpoch ==
    \A c \in 1..calls : \A i \in 1..Len(bufs[c]) :
        bufs[c][i] # Untouched => blockEpoch[bufs[c][i][1]] = bufEpoch[c]

\* C7: a start() that follows a stop() finds the slot empty, and no block produced
\* after the restart is copied into a buffer offered before the stop().
RestartClean ==
    [][((epoch >= 1 /\ epoch' = epoch + 1) => _stream_buff' = nullptr) /\ SameEpoch']_vars

UndersizedReturnsZero ==
    [][(wpc = "lock" /\ wpc' # "lock" /\ req[calls] < _airspyhf_output_size) =>
          /\ wpc' = "idle"
          /\ ret'[calls] = 0
          /\ UNCHANGED <<_stream_buff, _stream_mutex, cpc, bufs, copies>>]_vars

\* C9 amended: an undersized work() call returns as soon as it has the lock, with 0
\* when the device is streaming and WORK_DONE when it is not, without storing a
\* buffer, without notifying the callback, without waiting and without any copy.
UndersizedNoOp ==
    [][(wpc = "lock" /\ wpc' # "lock" /\ req[calls] < _airspyhf_output_size) =>
          /\ wpc' = "idle"
          /\ ret'[calls] = IF streaming THEN 0 ELSE WORK_DONE
          /\ UNCHANGED <<_stream_buff, _stream_mutex, cpc, bufs, copies>>]_vars

\* C9 witness: an undersized work() call on a streaming device has returned 0 while
\* the callback was parked waiting for a buffer.
UndersizedNoOpWitness ==
    /\ calls >= 1 /\ wpc = "idle"
    /\ req[calls] < _airspyhf_output_size /\ ret[calls] = 0
    /\ cpc = "wait" /\ _stream_buff = nullptr

\* C10: a callback invocation whose transfer reports dropped samples raises
\* _dropped_samples by one by the time it returns.
DropAccounting ==
    [][(cpc # "idle" /\ cpc' = "idle" /\ t_dropped > 0) =>
          _dropped_samples' = _dropped_samples + 1]_vars

\* C11: when airspyhf_start reports an error, start() does not return true to its
\* caller, and the bridge stays stopped.
StartFailsFatally ==
    /\ ctl # "start refused, returned true"
    /\ ctl = "start refused, aborted" => ~streaming

\* C12: at most one connection to a unit is open at any time.
OneConnectionPerUnit ==
    \A unit \in Units : Cardinality(OpenConnections(unit)) <= 1

\* C13: a connection is closed once, when and only when its last shared handle is
\* gone, and a closed connection has no entry in _devs: bladerf_close is called at
\* most once and only on an expired handle without an entry, and once a handle has
\* expired a thread is on its way to bladerf_close.
HandleClosedOnLastRelease ==
    \A h \in DOMAIN handles :
        /\ handles[h].closes <= 1
        /\ handles[h].closes = 1 =>
               Expired(h) /\ \A i \in DOMAIN _devs : _devs[i] # h
        /\ Expired(h) /\ handles[h].closes = 0 =>
               \E t \in Threads : tvar[t].closing = h /\ tpc[t] \in {"close: lock", "close: hw"}

\* C14 as stated: a set_center_freq(freq, ch) with freq outside freq_range(ch) writes
\* nothing to the hardware, does not throw because of the range, and returns the
\* frequency in force.
OutOfRangeRequestIgnored ==
    [][(/\ brfcall'.op = "set_center_freq"
        /\ \/ brfcall'.arg < ToDouble(freq_range(brf.xb).start)
           \/ brfcall'.arg > ToDouble(freq_range(brf.xb).stop))
       => /\ brf' = brf
          /\ ~brfcall'.tx
          /\ brfcall'.ended # "threw, set failed"
          /\ brfcall'.ended = "returned" => brfcall'.ret = ToDouble(brf.hw_freq)]_brfvars

\* C14: a set_center_freq(freq, ch) whose rounded frequency (uint64_t)(freq + 0.5)
\* lies outside freq_range(ch) writes nothing to the hardware, does not throw because
\* of the range, and returns the frequency in force when it returns.
OutOfRangeIgnored ==
    [][(/\ brfcall'.op = "set_center_freq"
        /\ \/ Freqint(brfcall'.arg) < freq_range(brf.xb).start
           \/ Freqint(brfcall'.arg) > freq_range(brf.xb).stop)
       => /\ brf' = brf
          /\ ~brfcall'.tx
          /\ brfcall'.ended # "threw, set failed"
          /\ brfcall'.ended = "returned" => brfcall'.ret = ToDouble(brf.hw_freq)]_brfvars

\* a request above the range has returned, the hardware retuned by an earlier call
OutOfRangeIgnoredWitness ==
    /\ brfcall.op = "set_center_freq"
    /\ Freqint(brfcall.arg) > freq_range(brf.xb).stop
    /\ brfcall.ended = "returned"
    /\ brfcall.ret = ToDouble(brf.hw_freq)
    /\ brf.hw_freq \notin {FreqMin, FreqMax}

RequestsCachedGain ==
    \/ /\ hfcall'.op = "set_gain"
       /\ hfcall'.name \in {"ATT", "LNA"}
       /\ hfcall'.arg = get_gain(hfcall'.name)
    \/ /\ hfcall'.op = "set_gain_mode"
       /\ hfcall'.arg = hf._agc

RequestsCachedTuning ==
    \/ hfcall'.op = "set_sample_rate" /\ hfcall'.arg = hf._sample_rate
    \/ hfcall'.op = "set_center_freq" /\ hfcall'.arg = hf._center_freq
    \/ hfcall'.op = "set_freq_corr" /\ hfcall'.arg = hf._freq_corr

\* C16 as stated: every setter called with the value that is cached makes no hardware
\* transaction and changes nothing.
SettersIdempotent ==
    [][(RequestsCachedGain \/ RequestsCachedTuning)
       => ~hfcall'.tx /\ hf' = hf]_hfvars

\* C16: set_gain for ATT and LNA and set_gain_mode, called with the value that is
\* cached, make no hardware transaction and change nothing.
GainSettersIdempotent ==
    [][RequestsCachedGain => ~hfcall'.tx /\ hf' = hf]_hfvars

\* the attenuator, at -12 dB, was asked for -12 dB again
GainSettersIdempotentWitness ==
    /\ hfcall.op = "set_gain"
    /\ hfcall.name = "ATT"
    /\ hfcall.arg = -12
    /\ hf._att = 2
    /\ ~hfcall.tx

\* the members that cache the parameters
Cached(h) == <<h._sample_rate, h._center_freq, h._freq_corr, h._att, h._lna, h._agc>>

\* C17: a request that the hardware refuses never changes a cached value.
PriorGoodValueRetained ==
    [][(~hfcall'.ok /\ hfcall'.ended = "returned") => Cached(hf') = Cached(hf)]_hfvars

\* what the getter that matches a setter returns
Getter(op, name) ==
    CASE op = "set_sample_rate" -> hf._sample_rate
      [] op = "set_center_freq" -> hf._center_freq
      [] op = "set_freq_corr" -> PpbToPpm(hf.hw_ppb)
      [] op = "set_gain" -> get_gain(name)
      [] op = "set_gain_mode" -> hf._agc

Setters == {"set_sample_rate", "set_center_freq", "set_freq_corr", "set_gain", "set_gain_mode"}

\* C18: a setter returns the value its getter returns right after it, also when the
\* hardware refused the request.
SetterReturnsEffective ==
    (hfcall.op \in Setters /\ hfcall.ended = "returned")
        => hfcall.ret = Getter(hfcall.op, hfcall.name)

\* C19: once a sample rate has been accepted, set_sample_rate and get_sample_rate
\* return the rate the hardware is programmed with.
SampleRateRoundTrip ==
    (hfcall.op \in {"set_sample_rate", "get_sample_rate"} /\ hf._sample_rate # 0)
        => hfcall.ret = ToDouble(hf.hw_rate)

\* the hardware has delivered all the blocks it will
NoMoreBlocks == blocks = MaxBlocks /\ cpc = "idle"

\* the k-th work() call is under way and asks for at least a block
InWorkForBlock(k) ==
    IF calls = k THEN wpc # "idle" /\ req[k] >= _airspyhf_output_size ELSE FALSE

\* the k-th work() call has returned the block size
GotBlock(k) == IF k <= calls THEN ret[k] = _airspyhf_output_size ELSE FALSE

\* C20: while the stream stays on and the hardware keeps delivering blocks, a work()
\* call for at least a block returns the block size, and a callback that has been
\* offered a buffer returns.
RendezvousLiveness ==
    /\ \A k \in 1..MaxCalls :
           InWorkForBlock(k) ~> (GotBlock(k) \/ ~streaming \/ NoMoreBlocks)
    /\ (cpc # "idle" /\ _stream_buff # nullptr) ~> (cpc = "idle" \/ ~streaming)

\* two work() calls in a row have each returned a block while the stream stayed on
RendezvousLivenessWitness ==
    /\ calls >= 2
    /\ \A k \in 1..2 : ret[k] = _airspyhf_output_size /\ copies[k] = 1
    /\ streaming
    /\ epoch = 1

\* C21: the slot is non-null only while the work() call that stored its buffer has
\* not returned, and the callback never writes into the buffer of a work() call that
\* has returned.
SlotOwnership ==
    /\ [](_stream_buff # nullptr => ret[_stream_buff] = PENDING)
    /\ [][\A c \in 1..calls : ret[c] # PENDING => bufs'[c] = bufs[c]]_vars

\* C22: a work() call that finds the device not streaming when it takes the lock
\* returns WORK_DONE whatever noutput_items is, stores no buffer, notifies nobody and
\* does not wait.
StoppedWorkDone ==
    [][(wpc = "lock" /\ wpc' # "lock" /\ ~streaming) =>
          /\ wpc' = "idle"
          /\ ret'[calls] = WORK_DONE
          /\ UNCHANGED <<_stream_buff, _stream_mutex, cpc, bufs, copies, bufEpoch,
                         streaming>>]_vars

\* a work() call for a whole block has returned WORK_DONE from a stream that had been
\* started and stopped, the call before it having got a block
StoppedWorkDoneWitness ==
    /\ calls >= 2
    /\ wpc = "idle"
    /\ ret[calls - 1] = _airspyhf_output_size
    /\ req[calls] >= _airspyhf_output_size
    /\ ret[calls] = WORK_DONE
    /\ ctl = "stop, stream stopped"

\* C23: no open() fails because the registry holds the entry of a handle whose last
\* reference is gone: it returns the live handle or opens the unit afresh.
OpenSurvivesDyingEntry ==
    \A t \in Threads : tvar[t].out # "threw, bad_weak_ptr"

\* C24: no thread enters close() while it holds _devs_mutex itself, so every thread
\* that took the lock goes on to release it.
RegistryLockReleased ==
    \A t \in Threads :
        /\ tpc[t] \notin {"deadlocked", "terminated"}
        /\ (_devs_mutex = t /\ tvar[t].closing # 0) => tpc[t] = "close: hw"

\* C25: when init() has returned there are at least two buffers, at least one
\* transfer, and at least twice as many buffers as transfers.
BufferTransferSizing ==
    ipc = "initialized" =>
        /\ _num_buffers >= 2
        /\ _num_transfers >= 1
        /\ _num_buffers >= 2 * _num_transfers

\* C26: whatever gain set_gain is given for "ATT", the attenuator step written to
\* the hardware and the step cached lie in 0..8, and the gain returned is one of
\* 0, -6, ..., -48 dB.
AttenuatorInRange ==
    /\ hf._att \in 0..8
    /\ hf.hw_att \in 0..8
    /\ (hfcall.op = "set_gain" /\ hfcall.name = "ATT" /\ hfcall.ended = "returned") =>
           hfcall.ret \in {-6 * k : k \in 0..8}

====
